---------------------------- MODULE Spec2Model ----------------------------
(***************************************************************************)
(* FinLight budget tracker (src/app.py): the session snapshot, the JSON    *)
(* data file, and one action per kind of script run.  Streamlit runs the   *)
(* whole script top to bottom on every interaction, so an action is one    *)
(* complete run: session initialisation (first run only), the allowance    *)
(* widget and its save, the submitted form's handler and its save, the     *)
(* forecast and the summary.                                               *)
(*                                                                         *)
(* Amounts are modelled as integers and the forecast in exact arithmetic.  *)
(* The code divides IEEE doubles; with days_passed in {1, 2}, as here,     *)
(* total / days is exact and int(allowance / average) equals the exact     *)
(* floor.                                                                  *)
(***************************************************************************)
EXTENDS Integers, Sequences, FiniteSets, TLC

(***************************************************************************)
(* Bounds of the model.                                                    *)
(***************************************************************************)
MaxExpenses == 2

MaxRecurring == 1

(***************************************************************************)
(* Program constants.                                                      *)
(***************************************************************************)
DEFAULT_ALLOWANCE == 5000

UNLIMITED == 9999

RISK_THRESHOLD == 30

(***************************************************************************)
(* Inputs the widgets can deliver.                                         *)
(***************************************************************************)
MkDate(y, m, d) == [y |-> y, m |-> m, d |-> d]

\* st.date_input: any calendar date (default range: today +/- 10 years).
DateChoices == {MkDate(2024, 1, 31), MkDate(2024, 2, 1), MkDate(2024, 2, 2)}

\* datetime.today(): the clock, read anew by every run.
TodayChoices == {MkDate(2024, 2, 1), MkDate(2024, 2, 2)}

\* st.selectbox("Category", [...]) and st.text_input("Optional Note") of the expense
\* form, as <<category, note>>: two of the six categories, the note empty or typed.
CategoryNoteChoices == {<<"Food", "">>, <<"Rent", "lunch">>}

AmountChoicesNoMin == {-10, 0, 10}

\* st.number_input("Amount", min_value=0.0): no negative amount is delivered.
AmountChoices == {0, 10}

\* st.number_input("Monthly Allowance", min_value=0, value=current): what a user types.
AllowanceChoices == {0, 300}

\* st.text_input("Subscription Name"): empty unless the user types one.
NameChoices == {"", "Netflix"}

\* st.number_input("Monthly Cost", min_value=0.0).
RecurringAmountChoices == {10}

\* st.selectbox("Category", [...]) of the recurring form (one of its four options).
RecurringCategoryChoices == {"Subscription"}

(***************************************************************************)
(* datetime.date: ordering, str(), and parsing back.                       *)
(***************************************************************************)
DateGE(a, b) ==
    \/ a.y > b.y
    \/ a.y = b.y /\ a.m > b.m
    \/ a.y = b.y /\ a.m = b.m /\ a.d >= b.d

Digits == <<"0", "1", "2", "3", "4", "5", "6", "7", "8", "9">>

DigitVal(c) == CHOOSE n \in 0..9 : Digits[n + 1] = c

DigitChar(n) == Digits[n + 1]

Pad2(n) == <<DigitChar((n \div 10) % 10), DigitChar(n % 10)>>

Pad4(n) == <<DigitChar((n \div 1000) % 10), DigitChar((n \div 100) % 10),
             DigitChar((n \div 10) % 10), DigitChar(n % 10)>>

\* str(datetime.date): YYYY-MM-DD, zero padded
isoformat(dt) == Pad4(dt.y) \o <<"-">> \o Pad2(dt.m) \o <<"-">> \o Pad2(dt.d)

\* the ISO parse of pd.to_datetime on a YYYY-MM-DD string: fixed-width fields
parse_iso(s) ==
    MkDate(DigitVal(s[1]) * 1000 + DigitVal(s[2]) * 100 + DigitVal(s[3]) * 10 + DigitVal(s[4]),
           DigitVal(s[6]) * 10 + DigitVal(s[7]),
           DigitVal(s[9]) * 10 + DigitVal(s[10]))

(***************************************************************************)
(* Cells of the "Date" column: a datetime.date object (as delivered by     *)
(* date_input) or a str (after astype(str), and after a load).             *)
(***************************************************************************)
NoDate == MkDate(0, 0, 0)

DateObj(dt) == [kind |-> "date", obj |-> dt, text |-> <<>>]

DateStr(s) == [kind |-> "str", obj |-> NoDate, text |-> s]

\* Series.astype(str) on one cell
astype_str(cell) == IF cell.kind = "date" THEN DateStr(isoformat(cell.obj)) ELSE cell

\* pd.to_datetime(...).dt.date on one cell (the column may mix str and date cells)
to_date(cell) == IF cell.kind = "date" THEN cell.obj ELSE parse_iso(cell.text)

(***************************************************************************)
(* Index labels of the DataFrame: ints after concat(ignore_index=True),    *)
(* strs after a load (JSON object keys are strings).                       *)
(***************************************************************************)
IntLabel(n) == [kind |-> "int", n |-> n, text |-> ""]

StrLabel(s) == [kind |-> "str", n |-> 0, text |-> s]

\* json.dump turns a dict key into a string: str(int), or the str itself
json_key(label) == IF label.kind = "int" THEN ToString(label.n) ELSE label.text

(***************************************************************************)
(* The expenses DataFrame: a sequence of rows, each with its index label.  *)
(***************************************************************************)
Row(idx, date, category, amount, note) ==
    [idx |-> idx, Date |-> date, Category |-> category, Amount |-> amount, Note |-> note]

\* pd.DataFrame(columns=["Date", "Category", "Amount", "Note"])
EmptyFrame == <<>>

concat_prepend(df, new_expense) ==
    [i \in 1..(Len(df) + 1) |->
        LET r == (<<new_expense>> \o df)[i] IN [r EXCEPT !.idx = IntLabel(i - 1)]]

\* pd.concat([df, new_expense], ignore_index=True): rows in order, labels 0..n-1
concat(df, new_expense) ==
    [i \in 1..(Len(df) + 1) |->
        LET r == (df \o <<new_expense>>)[i] IN [r EXCEPT !.idx = IntLabel(i - 1)]]

(***************************************************************************)
(* The JSON document of DATA_FILE.  A JSON object keeps its members in     *)
(* written order, so a column is a sequence of key/value members.          *)
(***************************************************************************)
Member(k, v) == [k |-> k, v |-> v]

\* one column of DataFrame.to_dict(): {index label -> value}, in row order
to_dict_column(df, col) ==
    [i \in 1..Len(df) |-> Member(df[i].idx, df[i][col])]

\* json.dump of one column: every key written as a string
dump_column(column) ==
    [i \in 1..Len(column) |-> Member(json_key(column[i].k), column[i].v)]

\* save_data, lines 25-26: the copy whose "Date" column is astype(str)
date_as_str(df) ==
    [i \in 1..Len(df) |-> [df[i] EXCEPT !.Date = astype_str(df[i].Date)]]

save_data_no_recurring(allowance, df, goals, recurring) ==
    LET e == date_as_str(df) IN
    [monthly_allowance |-> allowance,
     expenses |-> [Date |-> dump_column(to_dict_column(e, "Date")),
                   Category |-> dump_column(to_dict_column(e, "Category")),
                   Amount |-> dump_column(to_dict_column(e, "Amount")),
                   Note |-> dump_column(to_dict_column(e, "Note"))],
     saving_goals |-> goals,
     recurring_expenses |-> <<>>]

\* save_data: the document written over DATA_FILE
save_data(allowance, df, goals, recurring) ==
    LET e == date_as_str(df) IN
    [monthly_allowance |-> allowance,
     expenses |-> [Date |-> dump_column(to_dict_column(e, "Date")),
                   Category |-> dump_column(to_dict_column(e, "Category")),
                   Amount |-> dump_column(to_dict_column(e, "Amount")),
                   Note |-> dump_column(to_dict_column(e, "Note"))],
     saving_goals |-> goals,
     recurring_expenses |-> recurring]

RECURSIVE union_keys(_, _)
\* the keys of `column` not yet in `keys`, appended in order
union_keys(keys, column) ==
    IF column = <<>> THEN keys
    ELSE LET k == Head(column).k IN
         union_keys(IF \E i \in 1..Len(keys) : keys[i] = k THEN keys ELSE Append(keys, k),
                    Tail(column))

\* the value a column holds for key k (every column of a saved frame has every key)
lookup(column, k) ==
    LET i == CHOOSE j \in 1..Len(column) : column[j].k = k IN column[i].v

Reverse(seq) == [i \in 1..Len(seq) |-> seq[Len(seq) + 1 - i]]

DataFrame_reversed(cols) ==
    LET index == Reverse(union_keys(union_keys(union_keys(union_keys(<<>>, cols.Date),
                     cols.Category), cols.Amount), cols.Note))
    IN [i \in 1..Len(index) |->
           Row(StrLabel(index[i]), lookup(cols.Date, index[i]), lookup(cols.Category, index[i]),
               lookup(cols.Amount, index[i]), lookup(cols.Note, index[i]))]

\* pd.DataFrame(dict of dicts): the index is the union of the inner keys in
\* their order of appearance, the labels are the JSON keys (strs)
DataFrame(cols) ==
    LET index == union_keys(union_keys(union_keys(union_keys(<<>>, cols.Date),
                     cols.Category), cols.Amount), cols.Note)
    IN [i \in 1..Len(index) |->
           Row(StrLabel(index[i]), lookup(cols.Date, index[i]), lookup(cols.Category, index[i]),
               lookup(cols.Amount, index[i]), lookup(cols.Note, index[i]))]

Snapshot(allowance, df, goals, recurring) ==
    [monthly_allowance |-> allowance, expenses |-> df,
     saving_goals |-> goals, recurring_expenses |-> recurring]

session_defaults_zero == Snapshot(0, EmptyFrame, <<>>, <<>>)

\* lines 38-41: the session's values before load_data
session_defaults == Snapshot(DEFAULT_ALLOWANCE, EmptyFrame, <<>>, <<>>)

\* load_data: `file` is <<>> when DATA_FILE does not exist, else <<document>>;
\* `session` is what the session holds when load_data is called.  Every document
\* save_data writes has all four keys, so the defaults of data.get never apply.
load_data(file, session) ==
    IF file # <<>>
    THEN LET data == file[1] IN
         Snapshot(data.monthly_allowance, DataFrame(data.expenses),
                  data.saving_goals, data.recurring_expenses)
    ELSE session

(***************************************************************************)
(* Forecast (lines 121-142) and summary (lines 151-152).                   *)
(***************************************************************************)
RECURSIVE SumAmounts(_)
\* Series.sum() of the "Amount" column
SumAmounts(df) == IF df = <<>> THEN 0 ELSE Head(df).Amount + SumAmounts(Tail(df))

\* line 126: today.replace(day=1)
start_of_month(now) == [now EXCEPT !.d = 1]

\* line 127: (today - start_of_month).days + 1, both dates in one month
days_passed(now) == (now.d - start_of_month(now).d) + 1

\* line 128: the rows of expenses_df[expenses_df["Date"] >= start_of_month]
since_start_of_month(df, now) ==
    SelectSeq(df, LAMBDA r : DateGE(to_date(r.Date), start_of_month(now)))

estimated_days_left_zero(allowance, total, days) ==
    IF total > 0 THEN (allowance * days) \div total ELSE 0

\* line 132: int(allowance / average_daily_spend) if average_daily_spend > 0 else 9999,
\* with average_daily_spend = total / days (line 129)
estimated_days_left(allowance, total, days) ==
    IF total > 0 THEN (allowance * days) \div total ELSE UNLIMITED

\* lines 124-142: what the forecast section shows
Forecast(allowance, df, now) ==
    IF df # <<>>
    THEN LET total == SumAmounts(since_start_of_month(df, now))
             days == days_passed(now)
             left == estimated_days_left(allowance, total, days)
         IN [shown |-> IF left < RISK_THRESHOLD THEN "warning" ELSE "success",
             total_spent |-> total, days_passed |-> days, estimated_days_left |-> left]
    ELSE [shown |-> "info", total_spent |-> 0, days_passed |-> 0, estimated_days_left |-> 0]

total_spent_skip_first(df) == IF df = <<>> THEN 0 ELSE SumAmounts(Tail(df))

\* line 151: expenses_df["Amount"].sum(), over every row
total_spent(df) == SumAmounts(df)

\* lines 151-152
Summary(allowance, df) ==
    [total_spent |-> total_spent(df), remaining_budget |-> allowance - total_spent(df)]

(***************************************************************************)
(* Form handlers.                                                          *)
(***************************************************************************)
\* lines 73-78: the one-row frame of the submitted expense
new_expense(date, category, amount, note) ==
    Row(IntLabel(0), DateObj(date), category, amount, note)

recurring_submit_unguarded(recurring, name, amount, category) ==
    Append(recurring, [Name |-> name, Amount |-> amount, Category |-> category])

\* lines 95-100: `if add_recurring and recurring_name:` then append
recurring_submit(recurring, name, amount, category) ==
    IF name # ""
    THEN Append(recurring, [Name |-> name, Amount |-> amount, Category |-> category])
    ELSE recurring

(***************************************************************************)
(* State.                                                                  *)
(***************************************************************************)
VARIABLES
    initialized,          \* "initialized" in st.session_state
    monthly_allowance,    \* st.session_state["monthly_allowance"]
    expenses,             \* st.session_state["expenses"]
    saving_goals,         \* st.session_state["saving_goals"]
    recurring_expenses,   \* st.session_state["recurring_expenses"]
    data_file,            \* DATA_FILE: <<>> when absent, else <<document>>
    today,                \* the clock: what datetime.today().date() returns
    file_existed,         \* history: os.path.exists(DATA_FILE) when this session began
    added                 \* history: the amounts submitted through the expense form

vars == <<initialized, monthly_allowance, expenses, saving_goals, recurring_expenses,
          data_file, today, file_existed, added>>

\* a process that has run nothing yet: no session, no data file
Init ==
    /\ initialized = FALSE
    /\ monthly_allowance = 0
    /\ expenses = EmptyFrame
    /\ saving_goals = <<>>
    /\ recurring_expenses = <<>>
    /\ data_file = <<>>
    /\ today = MkDate(2024, 2, 1)
    /\ file_existed = FALSE
    /\ added = <<>>

\* lines 54-57: the allowance widget's value becomes the session's allowance and
\* save_data writes the session as it is then, before any form handler runs
allowance_section(updated_allowance) ==
    <<save_data(updated_allowance, expenses, saving_goals, recurring_expenses)>>

expense_handler_no_save(saved, allowance, df, goals, recurring) == saved

\* line 81: the expense handler's own save_data, after the append; `saved` is
\* DATA_FILE as line 57 left it
expense_handler_save(saved, allowance, df, goals, recurring) ==
    <<save_data(allowance, df, goals, recurring)>>

\* line 102: the recurring handler's own save_data, inside `if ... and recurring_name`
recurring_handler_save(saved, name, allowance, df, goals, recurring) ==
    IF name # "" THEN <<save_data(allowance, df, goals, recurring)>> ELSE saved

\* The first run of a new session (lines 37-43, then the rest of the script with
\* every widget at its default): defaults, load_data, the allowance widget
\* returning value=current, save_data.
NewSession ==
    LET s == load_data(data_file, session_defaults) IN
    /\ initialized' = TRUE
    /\ monthly_allowance' = s.monthly_allowance
    /\ expenses' = s.expenses
    /\ saving_goals' = s.saving_goals
    /\ recurring_expenses' = s.recurring_expenses
    /\ data_file' = <<save_data(s.monthly_allowance, s.expenses, s.saving_goals,
                                s.recurring_expenses)>>
    /\ file_existed' = (data_file # <<>>)
    /\ UNCHANGED <<today, added>>

\* A rerun after the user changed the allowance widget (lines 54-57).
SetAllowance(updated_allowance) ==
    /\ initialized
    /\ monthly_allowance' = updated_allowance
    /\ data_file' = allowance_section(updated_allowance)
    /\ UNCHANGED <<initialized, expenses, saving_goals, recurring_expenses,
                   today, file_existed, added>>

\* A rerun after "Add Expense" was pressed: lines 54-57 with the widget at the
\* current allowance, then the handler of lines 72-81.
AddExpense(date, category, amount, note) ==
    /\ initialized
    /\ Len(expenses) < MaxExpenses
    /\ expenses' = concat(expenses, new_expense(date, category, amount, note))
    /\ data_file' = expense_handler_save(allowance_section(monthly_allowance),
                        monthly_allowance, expenses', saving_goals, recurring_expenses)
    /\ added' = Append(added, amount)
    /\ UNCHANGED <<initialized, monthly_allowance, saving_goals, recurring_expenses,
                   today, file_existed>>

\* A rerun after "Add Recurring Expense" was pressed: lines 54-57 with the widget
\* at the current allowance, then the handler of lines 95-102.
AddRecurring(name, amount, category) ==
    /\ initialized
    /\ name = "" \/ Len(recurring_expenses) < MaxRecurring
    /\ recurring_expenses' = recurring_submit(recurring_expenses, name, amount, category)
    /\ data_file' = recurring_handler_save(allowance_section(monthly_allowance), name,
                        monthly_allowance, expenses, saving_goals, recurring_expenses')
    /\ UNCHANGED <<initialized, monthly_allowance, expenses, saving_goals,
                   today, file_existed, added>>

\* The clock passes midnight: later runs read the next date.
Midnight ==
    /\ \E next \in TodayChoices :
          /\ next # today
          /\ DateGE(next, today)
          /\ today' = next
    /\ UNCHANGED <<initialized, monthly_allowance, expenses, saving_goals,
                   recurring_expenses, data_file, file_existed, added>>

Next ==
    \/ NewSession
    \/ \E v \in AllowanceChoices : SetAllowance(v)
    \/ \E date \in DateChoices, amount \in AmountChoices, cn \in CategoryNoteChoices :
          AddExpense(date, cn[1], amount, cn[2])
    \/ \E name \in NameChoices, amount \in RecurringAmountChoices,
          category \in RecurringCategoryChoices :
          AddRecurring(name, amount, category)
    \/ Midnight

Spec == Init /\ [][Next]_vars

(***************************************************************************)
(* What a run in the current state shows: the forecast and the summary are *)
(* recomputed by every run from the session and the clock, and stored      *)
(* nowhere.                                                                *)
(***************************************************************************)
forecast == Forecast(monthly_allowance, expenses, today)

summary == Summary(monthly_allowance, expenses)

(***************************************************************************)
(* Vocabulary of the properties.                                           *)
(***************************************************************************)
\* an expense record as the specification names it: its date as a calendar date
\* whatever the cell's formatting, category, amount and note
Record(r) == [date |-> to_date(r.Date), category |-> r.Category,
              amount |-> r.Amount, note |-> r.Note]

Records(df) == [i \in 1..Len(df) |-> Record(df[i])]

IsPrefix(p, q) == Len(p) <= Len(q) /\ \A i \in 1..Len(p) : p[i] = q[i]

\* two snapshots equal up to the formatting of dates
SameSnapshot(a, b) ==
    /\ a.monthly_allowance = b.monthly_allowance
    /\ Records(a.expenses) = Records(b.expenses)
    /\ a.recurring_expenses = b.recurring_expenses
    /\ a.saving_goals = b.saving_goals

session == Snapshot(monthly_allowance, expenses, saving_goals, recurring_expenses)

RECURSIVE SumSeq(_)
SumSeq(q) == IF q = <<>> THEN 0 ELSE Head(q) + SumSeq(Tail(q))

\* month-to-date as the specification defines it: first day of today's month
\* through today, both inclusive
InMonthToDate(r) ==
    /\ DateGE(to_date(r.Date), start_of_month(today))
    /\ DateGE(today, to_date(r.Date))

monthToDateSpent == SumAmounts(SelectSeq(expenses, InMonthToDate))

(***************************************************************************)
(* C1: at the end of every run the data file holds exactly the current     *)
(* session snapshot (allowance, expenses, recurring expenses, saving       *)
(* goals), as save_data writes it.                                         *)
(***************************************************************************)
C1_FileHoldsSnapshot ==
    initialized =>
        /\ data_file = <<save_data(monthly_allowance, expenses, saving_goals,
                                   recurring_expenses)>>
        /\ SameSnapshot(load_data(data_file, session_defaults), session)

C1_Witness ==
    /\ initialized
    /\ monthly_allowance = 300
    /\ Len(expenses) = 2
    /\ Len(recurring_expenses) = 1
    /\ expenses[2].Date.kind = "date"
    /\ data_file = <<save_data(monthly_allowance, expenses, saving_goals,
                               recurring_expenses)>>

(***************************************************************************)
(* C2: saving a snapshot and loading it back yields the same allowance,    *)
(* the same expense records in the same order, the same recurring expenses *)
(* and the same saving goals, dates compared as calendar dates; the loaded *)
(* dates are the ISO strings of the saved ones.  Holds for the empty       *)
(* expense list too.                                                       *)
(***************************************************************************)
C2_RoundTrip ==
    initialized =>
        LET saved == <<save_data(monthly_allowance, expenses, saving_goals,
                                 recurring_expenses)>>
            loaded == load_data(saved, session_defaults)
        IN /\ SameSnapshot(loaded, session)
           /\ \A i \in 1..Len(loaded.expenses) :
                 loaded.expenses[i].Date = DateStr(isoformat(to_date(expenses[i].Date)))

C2_Witness ==
    /\ initialized
    /\ Len(expenses) = 2
    /\ expenses[1].Date.kind = "str"
    /\ expenses[2].Date.kind = "date"
    /\ to_date(expenses[1].Date) # to_date(expenses[2].Date)
    /\ expenses[1].Note # expenses[2].Note
    /\ Len(recurring_expenses) = 1
    /\ SameSnapshot(load_data(data_file, session_defaults), session)

(***************************************************************************)
(* C3: a session that starts when no data file exists holds the default    *)
(* snapshot: allowance 5000, no expenses, no recurring expenses, no goals. *)
(***************************************************************************)
C3_NoFileDefaults ==
    [][(data_file = <<>> /\ initialized') =>
          /\ monthly_allowance' = 5000
          /\ expenses' = <<>>
          /\ recurring_expenses' = <<>>
          /\ saving_goals' = <<>>]_vars

C3_Witness ==
    /\ initialized
    /\ ~file_existed
    /\ added = <<>>
    /\ monthly_allowance = 5000
    /\ expenses = <<>>
    /\ recurring_expenses = <<>>
    /\ saving_goals = <<>>

(***************************************************************************)
(* C4: the total spent that the summary shows equals the sum of all the    *)
(* amounts submitted through the expense form, whatever their dates.       *)
(***************************************************************************)
C4_TotalIsSum == initialized => summary.total_spent = SumSeq(added)

C4_Witness ==
    /\ initialized
    /\ added = <<10, 10>>
    /\ summary.total_spent = 20
    /\ \E i \in 1..Len(expenses) :
          expenses[i].Amount = 10 /\ ~DateGE(to_date(expenses[i].Date), start_of_month(today))

(***************************************************************************)
(* C5: the month-to-date total used for the average daily spend is the sum *)
(* of the amounts of exactly the expenses dated from the first day of      *)
(* today's month through today.                                            *)
(***************************************************************************)
C5_MonthToDate ==
    (initialized /\ expenses # <<>>) => forecast.total_spent = monthToDateSpent

C7_Estimate ==
    (initialized /\ monthToDateSpent > 0) =>
        /\ forecast.days_passed = today.d
        /\ forecast.estimated_days_left = (monthly_allowance * today.d) \div monthToDateSpent
        /\ forecast.shown =
              IF (monthly_allowance * today.d) \div monthToDateSpent < 30
              THEN "warning" ELSE "success"

(***************************************************************************)
(* C8: expense records are append-only.  Every step keeps the existing     *)
(* records, in place and unchanged, and adds at most one, placed last; a   *)
(* step that adds one leaves the allowance, the recurring expenses and the *)
(* saving goals unchanged.                                                 *)
(***************************************************************************)
C8_AppendOnly ==
    [][/\ IsPrefix(Records(expenses), Records(expenses'))
       /\ Len(expenses') <= Len(expenses) + 1
       /\ Len(expenses') = Len(expenses) + 1 =>
             /\ monthly_allowance' = monthly_allowance
             /\ recurring_expenses' = recurring_expenses
             /\ saving_goals' = saving_goals]_vars

C8_Witness ==
    /\ initialized
    /\ file_existed
    /\ Len(expenses) = 2
    /\ expenses[1].Date.kind = "str"
    /\ expenses[2].Date.kind = "date"
    /\ expenses[2].idx = IntLabel(1)
    /\ Record(expenses[1]) # Record(expenses[2])
    /\ monthly_allowance = 300
    /\ Len(recurring_expenses) = 1
    /\ added = <<expenses[1].Amount, expenses[2].Amount>>

(***************************************************************************)
(* C9: in every reachable state, sessions loaded from the data file        *)
(* included, the allowance, every expense amount and every                 *)
(* recurring-expense amount are >= 0.                                      *)
(***************************************************************************)
C9_NonNegative ==
    /\ monthly_allowance >= 0
    /\ \A i \in 1..Len(expenses) : expenses[i].Amount >= 0
    /\ \A i \in 1..Len(recurring_expenses) : recurring_expenses[i].Amount >= 0

C9_Witness ==
    /\ initialized
    /\ file_existed
    /\ monthly_allowance = 0
    /\ Len(expenses) = 2
    /\ expenses[1].Date.kind = "str"
    /\ expenses[1].Amount = 0
    /\ expenses[2].Amount = 10
    /\ Len(recurring_expenses) = 1

=============================================================================
